---- MODULE Spec2Model ----
(***************************************************************************)
(* Model of the immich-drop browser client (frontend/app.js): the item     *)
(* registry, the push-channel message handler, the upload queue runner     *)
(* and the clear buttons.  One action per event handler or continuation;   *)
(* JavaScript runs each of them to completion, so each is one atomic step. *)
(***************************************************************************)
EXTENDS Integers, Sequences, FiniteSets, TLC

\* ---------------------------------------------------------------- bounds
\* Spec: the whole client, few items, every push message
MaxItems == 2    \* files accepted into the registry over one run
MaxBatch == 2    \* files in one drop / one picker selection
MaxDrops == 1    \* drop or picker events (each one calls runQueue)
MaxPush == 2     \* push messages delivered over one run
\* QueueSpec: the whole client, more items than the throttle
QItems == 4
QBatch == 4
QDrops == 2
QPush == 1
\* LiveSpec: one batch larger than the throttle
LItems == 4
LBatch == 4
LDrops == 1
LPush == 1
\* FiveSpec: one batch of up to five files
FItems == 5
FBatch == 5
FDrops == 1
FPush == 1
\* SocketSpec: the whole client with the life of the push connection
SItems == 2
SBatch == 2
SDrops == 2
SPush == 1
\* FilterSpec: two batches of files of every kind
XItems == 5
XBatch == 5
XDrops == 2
XPush == 1
\* record: whether last keeps the details of push and upload events;
\* socket: whether push messages need an open connection (otherwise the
\* life of the connection is left out and messages arrive at any time)
Limits ==
    [items |-> MaxItems, drops |-> MaxDrops, push |-> MaxPush,
     record |-> TRUE, socket |-> FALSE]
QLimits ==
    [items |-> QItems, drops |-> QDrops, push |-> QPush, record |-> FALSE, socket |-> FALSE]
LLimits ==
    [items |-> LItems, drops |-> LDrops, push |-> LPush, record |-> FALSE, socket |-> FALSE]
FLimits ==
    [items |-> FItems, drops |-> FDrops, push |-> FPush, record |-> FALSE, socket |-> FALSE]
SLimits ==
    [items |-> SItems, drops |-> SDrops, push |-> SPush, record |-> FALSE,
     socket |-> TRUE]
XLimits ==
    [items |-> XItems, drops |-> XDrops, push |-> XPush, record |-> FALSE,
     socket |-> FALSE]
\* BatchSpec: the bounds of LiveSpec, with the details of events kept
BLimits ==
    [items |-> LItems, drops |-> LDrops, push |-> LPush, record |-> TRUE, socket |-> FALSE]

\* ------------------------------------------------------------- constants
STATUS_ORDER ==
    [queued |-> 0, checking |-> 1, uploading |-> 2,
     duplicate |-> 3, done |-> 3, error |-> 4]
FINAL_STATES == {"done", "duplicate", "error"}
\* Variant of Throttle with one slip, used to test the properties below.
ThrottleLow == 3 - 1
Throttle == 3

\* The JavaScript value undefined (an absent field, an unset property).
Undefined == "<undefined>"
\* String(err) of the TypeError that render() throws on it.status.charAt
\* when an item's status is undefined.
RenderError == "TypeError: Cannot read properties of undefined"
\* String(err) of a rejected fetch().
FetchError == "TypeError: Failed to fetch"

\* --------------------------------------------------------------- strings
Char(s, i) == SubSeq(s, i, i)
UpperCase == "ABCDEFGHIJKLMNOPQRSTUVWXYZ"
LowerCase == "abcdefghijklmnopqrstuvwxyz"
LowerChar(c) ==
    IF \E k \in 1..26 : Char(UpperCase, k) = c
    THEN Char(LowerCase, CHOOSE k \in 1..26 : Char(UpperCase, k) = c)
    ELSE c
RECURSIVE toLowerCase(_)
toLowerCase(s) ==
    IF Len(s) = 0 THEN s
    ELSE LowerChar(Char(s, 1)) \o toLowerCase(SubSeq(s, 2, Len(s)))
StartsWith(s, t) == Len(t) <= Len(s) /\ SubSeq(s, 1, Len(t)) = t
EndsWith(s, t) ==
    Len(t) <= Len(s) /\ SubSeq(s, Len(s) - Len(t) + 1, Len(s)) = t
Contains(s, t) ==
    \E i \in 1..(Len(s) - Len(t) + 1) : SubSeq(s, i, i + Len(t) - 1) = t

\* /duplicate/i.test(statusText)
isDuplicate(statusText) == Contains(toLowerCase(statusText), "duplicate")

\* ----------------------------------------------------------- file filter
Extensions ==
    {"jpg", "jpeg", "png", "heic", "heif", "webp", "gif", "tiff", "bmp",
     "mp4", "mov", "m4v", "avi", "mkv"}
\* /^(image|video)\//.test(f.type) || /\.(jpe?g|...|mkv)$/i.test(f.name)
Accepted(f) ==
    LET name == toLowerCase(f.name) IN
    \/ StartsWith(f.type, "image/")
    \/ StartsWith(f.type, "video/")
    \/ \E e \in Extensions : EndsWith(name, "." \o e)

Files ==
    { [name |-> "photo.JPG",  type |-> ""],
      [name |-> "clip.mkv",   type |-> "video/x-matroska"],
      [name |-> "readme.txt", type |-> "text/plain"] }
QFiles == { f \in Files : f.type # "video/x-matroska" }
Batches(files, max) == UNION { [1..n -> files] : n \in 0..max }
\* the files of Files that pass the filter, evaluated once
AcceptedFiles == { f \in Files : Accepted(f) }
\* files.filter(...) of every batch, evaluated once
Filtered(batches) ==
    { SelectSeq(files, LAMBDA f : f \in AcceptedFiles) : files \in batches }
SpecAccepted == Filtered(Batches(Files, MaxBatch))
QAccepted == Filtered(Batches(QFiles, QBatch))
LAccepted == Filtered(Batches(QFiles, LBatch))
FAccepted == Filtered(Batches(QFiles, FBatch))
SAccepted == Filtered(Batches(QFiles, SBatch))
\* the batch photo.JPG, clip.mkv, readme.txt, and longer ones that repeat
\* it up to XBatch files
Scenario ==
    << [name |-> "photo.JPG",  type |-> ""],
       [name |-> "clip.mkv",   type |-> "video/x-matroska"],
       [name |-> "readme.txt", type |-> "text/plain"] >>
XBatches ==
    { [k \in 1..n |-> Scenario[((k - 1) % 3) + 1]] : n \in 3..XBatch }

\* ------------------------------------------------------------------ state
VARIABLES
    obj,       \* the item objects ever created, by id: status, progress, message
    items,     \* the registry: ids of the item objects, head first
    nq,        \* number of runQueue invocations so far (one closure each)
    inflight,  \* per runQueue closure, its inflight counter
    flights,   \* uploads issued and not yet completed: [id, q, n]
    timers,    \* per runQueue closure, pending setTimeout(runNext, 50)
    claims,    \* per item, how many times a runner set it to checking
    issued,    \* per item, how many times fetch('/api/upload') was called
    drops,     \* drop / picker events so far
    pushes,    \* push messages delivered so far
    last,      \* the event handled last, with the item as it was before
    socks,     \* the WebSocket objects not yet closed: readyState, sent
    socket,    \* index in socks of the object the variable socket holds
    retry      \* pending setTimeout(openSocket, 2000)

sockvars == <<socks, socket, retry>>
vars ==
    <<obj, items, nq, inflight, flights, timers, claims, issued, drops,
      pushes, last, socks, socket, retry>>

\* ---------------------------------------------------------------- helpers
Max(a, b) == IF a >= b THEN a ELSE b
Min(a, b) == IF a <= b THEN a ELSE b
Range(s) == { s[k] : k \in 1..Len(s) }
Field(rec, f) == IF f \in DOMAIN rec THEN rec[f] ELSE Undefined
\* JavaScript truthiness of a string-or-undefined value
Truthy(v) == v # Undefined /\ v # ""
\* STATUS_ORDER[s] ?? 0
Rank(s) == IF s \in DOMAIN STATUS_ORDER THEN STATUS_ORDER[s] ELSE 0
IsFinal(s) == s \in FINAL_STATES
NoItem == [status |-> Undefined, progress |-> 0, message |-> Undefined]
\* value of last after an event whose details are not recorded
NoEvent == [kind |-> "none"]
Event(L, e) == IF L.record THEN e ELSE NoEvent

\* render() throws when it reaches it.status.charAt(0) of an item whose
\* status is undefined.
RenderThrows(reg, o) == \E k \in 1..Len(reg) : o[reg[k]].status = Undefined

\* ------------------------------------------------------------ push channel
PushStatuses ==
    {"queued", "checking", "uploading", "duplicate", "done", "error",
     "processing"}
PushProgress == {40, 100}
PushTexts == {"", "Uploading"}
EmptyObject == [f \in {} |-> Undefined]
\* the fields of a message besides item_id
PushBodies ==
    { s @@ p @@ t :
        s \in {EmptyObject} \cup { [status |-> x] : x \in PushStatuses },
        p \in {EmptyObject} \cup { [progress |-> x] : x \in PushProgress },
        t \in {EmptyObject} \cup { [message |-> x] : x \in PushTexts } }

\* QueueSpec, LiveSpec: the messages that carry a status or nothing, and
\* the one that carries only a progress value
XBodies == { b \in PushBodies : DOMAIN b = {} \/ b = [status |-> "uploading"] }
QBodies ==
    { b \in PushBodies :
        /\ "message" \notin DOMAIN b
        /\ "progress" \in DOMAIN b =>
              (b.progress = 40 /\ "status" \notin DOMAIN b) }

\* Variants of onmessage with one slip each, used to test the properties
\* below: progress assigned instead of maximised; no early return for a
\* finalized item; a regressive status dropping the whole message.
onmessageAssign(it, msg) ==
    IF IsFinal(it.status) THEN it
    ELSE
      LET status  == Field(msg, "status")
          message == Field(msg, "message")
          st1 == IF Rank(status) < Rank(it.status) THEN it.status ELSE status
          pr1 == IF "progress" \in DOMAIN msg
                 THEN msg.progress ELSE it.progress
      IN [status |-> st1,
          progress |-> IF IsFinal(st1) THEN 100 ELSE pr1,
          message |-> IF Truthy(message) THEN message ELSE it.message]

onmessageLate(it, msg) ==
    LET status  == Field(msg, "status")
        message == Field(msg, "message")
        st1 == IF Rank(status) < Rank(it.status) THEN it.status ELSE status
        pr1 == IF "progress" \in DOMAIN msg
               THEN Max(it.progress, msg.progress) ELSE it.progress
    IN [status |-> st1,
        progress |-> IF IsFinal(st1) THEN 100 ELSE pr1,
        message |-> IF Truthy(message) THEN message ELSE it.message]

onmessageDrop(it, msg) ==
    IF IsFinal(it.status) THEN it
    ELSE IF Rank(Field(msg, "status")) < Rank(it.status) THEN it
    ELSE onmessageLate(it, msg)

\* Variant of onmessage with one slip, used to test the properties below:
\* the progress of a message is taken as an increment.
onmessageAdd(it, msg) ==
    IF IsFinal(it.status) THEN it
    ELSE
      LET status  == Field(msg, "status")
          message == Field(msg, "message")
          st1 == IF Rank(status) < Rank(it.status) THEN it.status ELSE status
          pr1 == IF "progress" \in DOMAIN msg
                 THEN Min(100, it.progress + msg.progress) ELSE it.progress
      IN [status |-> st1,
          progress |-> IF IsFinal(st1) THEN 100 ELSE pr1,
          message |-> IF Truthy(message) THEN message ELSE it.message]

\* The body of socket.onmessage once the item is found: the new item.
onmessage(it, msg) ==
    IF IsFinal(it.status) THEN it
    ELSE
      LET status  == Field(msg, "status")
          message == Field(msg, "message")
          cur == Rank(it.status)
          inc == Rank(status)
          st1 == IF inc < cur THEN it.status ELSE status
          pr1 == IF "progress" \in DOMAIN msg
                 THEN Max(it.progress, msg.progress) ELSE it.progress
          ms1 == IF Truthy(message) THEN message ELSE it.message
      IN [status |-> st1,
          progress |-> IF IsFinal(st1) THEN 100 ELSE pr1,
          message |-> ms1]

\* ------------------------------------------------------------ upload queue
\* items.find(i => i.status === 'queued'): index in the registry, 0 if none
FindQueued(reg, o) ==
    IF \E k \in 1..Len(reg) : o[reg[k]].status = "queued"
    THEN CHOOSE k \in 1..Len(reg) :
           /\ o[reg[k]].status = "queued"
           /\ \A j \in 1..(k - 1) : o[reg[j]].status # "queued"
    ELSE 0

\* Variant of runNext with one slip, used to test the properties below:
\* the claimed item is not marked checking.
runNextNoMark(c, reg, q) ==
    IF c.inflight[q] >= Throttle THEN c
    ELSE
      LET k == FindQueued(reg, c.obj) IN
      IF k = 0 THEN c
      ELSE
        LET id == reg[k] IN
        [c EXCEPT !.claims[id] = @ + 1,
                  !.inflight[q] = @ + 1,
                  !.issued[id] = @ + 1,
                  !.flights = @ \cup
                      {[id |-> id, q |-> q, n |-> c.issued[id] + 1]}]

\* runNext up to its first await, in closure q, on the runner's part c of
\* the state.
runNext(c, reg, q) ==
    IF c.inflight[q] >= Throttle THEN c
    ELSE
      LET k == FindQueued(reg, c.obj) IN
      IF k = 0 THEN c
      ELSE
        LET id == reg[k]
            o1 == [c.obj EXCEPT ![id].status = "checking"]
            c1 == [c EXCEPT !.obj = o1, !.claims[id] = @ + 1]
        IN IF RenderThrows(reg, o1) THEN c1
           ELSE [c1 EXCEPT
                   !.inflight[q] = @ + 1,
                   !.issued[id] = @ + 1,
                   !.flights = @ \cup
                       {[id |-> id, q |-> q, n |-> c.issued[id] + 1]}]

Runner ==
    [obj |-> obj, inflight |-> inflight, flights |-> flights,
     claims |-> claims, issued |-> issued]

SetRunner(c) ==
    /\ obj' = c.obj
    /\ inflight' = c.inflight
    /\ flights' = c.flights
    /\ claims' = c.claims
    /\ issued' = c.issued

\* The status texts of the response bodies below (and the empty text the
\* code uses when the body has none), with the regular expression
\* evaluated once for each.
StatusTexts == {"", "Duplicate asset"}
DuplicateTexts == { t \in StatusTexts : isDuplicate(t) }

\* The outcomes of fetch('/api/upload') followed by res.json().
Outcomes ==
    { [thrown |-> FALSE, ok |-> TRUE,  body |-> EmptyObject],
      [thrown |-> FALSE, ok |-> TRUE,  body |-> [status |-> "Duplicate asset"]],
      [thrown |-> FALSE, ok |-> FALSE, body |-> EmptyObject],
      [thrown |-> TRUE,  ok |-> FALSE, body |-> EmptyObject] }

\* The try / catch of runNext after the await: the item as it is left.
\* reg and o are the registry and the objects at that moment (for render).
finish(it, out, id, reg, o) ==
    LET afterCatch(e) == [it EXCEPT !.status = "error", !.message = e]
        renders(x) == ~RenderThrows(reg, [o EXCEPT ![id] = x])
    IN
    IF out.thrown THEN afterCatch(FetchError)
    ELSE IF ~out.ok /\ it.status # "error" THEN
      LET error == Field(out.body, "error")
          x == [it EXCEPT !.status = "error",
                          !.message = IF Truthy(error) THEN error
                                      ELSE "Upload failed"]
      IN IF renders(x) THEN x
         ELSE [x EXCEPT !.status = "error", !.message = RenderError]
    ELSE IF out.ok THEN
      LET statusText == IF Truthy(Field(out.body, "status"))
                        THEN out.body.status ELSE ""
          dup == statusText \in DuplicateTexts
          x == [status |-> IF dup THEN "duplicate" ELSE "done",
                message |-> IF Truthy(statusText) THEN statusText
                            ELSE IF dup THEN "Duplicate" ELSE "Uploaded",
                progress |-> 100]
      IN IF renders(x) THEN x
         ELSE [x EXCEPT !.status = "error", !.message = RenderError]
    ELSE it

\* ---------------------------------------------------------- push socket
\* const sessionId
sessionId == "session-1"
\* new WebSocket(...): readyState CONNECTING, nothing sent
NewSocket == [state |-> "connecting", sent |-> <<>>]
\* s without its k-th element
Remove(s, k) == SubSeq(s, 1, k - 1) \o SubSeq(s, k + 1, Len(s))

\* ------------------------------------------------------------------- Init
Init ==
    /\ obj = <<>>
    /\ items = <<>>
    /\ nq = 0
    /\ inflight = <<>>
    /\ flights = {}
    /\ timers = <<>>
    /\ claims = <<>>
    /\ issued = <<>>
    /\ drops = 0
    /\ pushes = 0
    /\ last = NoEvent
    /\ socks = <<NewSocket>>
    /\ socket = 1
    /\ retry = 0

\* ---------------------------------------------------------------- actions
\* The drop / change handler on the accepted files of its batch:
\* addItem for each accepted file, then render and runQueue.  When render
\* throws, the first addItem aborts the handler after its unshift (or the
\* handler's own render does), and runQueue is never reached.
AddBatchAs(accepted, L, ev) ==
    LET broken == RenderThrows(items, obj)
        n == IF broken THEN Min(1, Len(accepted)) ELSE Len(accepted)
        base == Len(obj)
        reg == [k \in 1..(n + Len(items)) |->
                  IF k <= n THEN base + n + 1 - k ELSE items[k - n]]
        q == nq + 1
        c0 == [obj |-> obj \o [k \in 1..n |->
                          [status |-> "queued", progress |-> 0,
                           message |-> Undefined]],
               inflight |-> Append(inflight, 0),
               flights |-> flights,
               claims |-> claims \o [k \in 1..n |-> 0],
               issued |-> issued \o [k \in 1..n |-> 0]]
        c3 == runNext(runNext(runNext(c0, reg, q), reg, q), reg, q)
    IN
    /\ drops < L.drops
    /\ base + n <= L.items
    /\ drops' = drops + 1
    /\ items' = reg
    /\ IF broken
       THEN /\ obj' = c0.obj
            /\ claims' = c0.claims
            /\ issued' = c0.issued
            /\ UNCHANGED <<nq, inflight, flights, timers>>
       ELSE /\ SetRunner(c3)
            /\ nq' = q
            /\ timers' = Append(timers, 0)
    /\ last' = ev
    /\ UNCHANGED pushes
    /\ UNCHANGED sockvars

\* the same, without a record of the batch
AddBatch(accepted, L) == AddBatchAs(accepted, L, NoEvent)

\* dz 'drop' listener on the files dropped, filter included
DropFiles(L, batches) ==
    \E files \in batches :
       AddBatchAs(SelectSeq(files, LAMBDA f : f \in AcceptedFiles), L,
                  [kind |-> "add", files |-> files])

\* fi.onchange on the files picked, filter included
PickFiles(L, batches) ==
    \E files \in batches :
       AddBatchAs(SelectSeq(files, LAMBDA f : f \in AcceptedFiles), L,
                  [kind |-> "add", files |-> files])

\* dz 'drop' listener
Drop(L, lists) == \E accepted \in lists : AddBatch(accepted, L)

\* fi.onchange
FileInputChange(L, lists) == \E accepted \in lists : AddBatch(accepted, L)

\* Variant of Deliver with one slip, used to test the properties below: a
\* message whose id is not found is applied to the head of the registry.
DeliverFallback(L, i, body) ==
    LET msg == [item_id |-> i] @@ body
        found == i \in Range(items)
        t == IF found THEN i ELSE IF Len(items) > 0 THEN items[1] ELSE 0
    IN
    /\ pushes < L.push
    /\ L.socket => \E k \in 1..Len(socks) : socks[k].state = "open"
    /\ pushes' = pushes + 1
    /\ obj' = IF t > 0 THEN [obj EXCEPT ![t] = onmessage(@, msg)] ELSE obj
    /\ last' = Event(L, [kind |-> "push", msg |-> msg, found |-> found,
                         pre |-> IF found THEN obj[i] ELSE NoItem])
    /\ UNCHANGED <<items, nq, inflight, flights, timers, claims, issued,
                   drops>>
    /\ UNCHANGED sockvars

\* socket.onmessage on the message with item_id i and the other fields
\* of body (i = 0: an id of no item of this page)
Deliver(L, i, body) ==
    LET msg == [item_id |-> i] @@ body
        found == i \in Range(items)
    IN
    /\ pushes < L.push
    /\ L.socket => \E k \in 1..Len(socks) : socks[k].state = "open"
    /\ pushes' = pushes + 1
    /\ obj' = IF found THEN [obj EXCEPT ![i] = onmessage(@, msg)] ELSE obj
    /\ last' = Event(L, [kind |-> "push", msg |-> msg, found |-> found,
                         pre |-> IF found THEN obj[i] ELSE NoItem])
    /\ UNCHANGED <<items, nq, inflight, flights, timers, claims, issued,
                   drops>>
    /\ UNCHANGED sockvars

\* socket.onmessage, for the messages with an id of ids and a body of bodies
SocketMessage(L, ids, bodies) ==
    \E i \in ids, body \in bodies : Deliver(L, i, body)

\* any message: for an item of this page, or for none
AnyId == 0..Len(obj)
\* only messages for items whose upload has been issued
IssuedIds == { i \in 1..Len(obj) : issued[i] > 0 }

\* Variant of UploadCompletes with one slip, used to test the properties
\* below: the finally block does not schedule the next runNext.
UploadCompletesNoTimer(L) ==
    \E f \in flights, out \in Outcomes :
      /\ obj' = [obj EXCEPT ![f.id] = finish(@, out, f.id, items, obj)]
      /\ flights' = flights \ {f}
      /\ inflight' = [inflight EXCEPT ![f.q] = @ - 1]
      /\ last' = Event(L, [kind |-> "http", id |-> f.id, out |-> out,
                            pre |-> obj[f.id]])
      /\ UNCHANGED <<items, nq, timers, claims, issued, drops, pushes>>
      /\ UNCHANGED sockvars

\* Variant of UploadCompletes with one slip, used to test the properties
\* below: next is shared by the runNext calls of the page, so a completion
\* writes to the item claimed last among those in flight.
UploadCompletesShared(L) ==
    \E f \in flights, out \in Outcomes :
      LET g == CHOOSE x \in flights : \A y \in flights : y.id <= x.id IN
      /\ obj' = [obj EXCEPT ![g.id] = finish(@, out, g.id, items, obj)]
      /\ flights' = flights \ {f}
      /\ inflight' = [inflight EXCEPT ![f.q] = @ - 1]
      /\ timers' = [timers EXCEPT ![f.q] = @ + 1]
      /\ last' = Event(L, [kind |-> "http", id |-> f.id, out |-> out,
                            pre |-> obj[f.id]])
      /\ UNCHANGED <<items, nq, claims, issued, drops, pushes>>
      /\ UNCHANGED sockvars

\* Variant of UploadCompletes with one slip, used to test the properties
\* below: an item that completes is taken out of the registry.
UploadCompletesEvict(L) ==
    \E f \in flights, out \in Outcomes :
      /\ obj' = [obj EXCEPT ![f.id] = finish(@, out, f.id, items, obj)]
      /\ items' = SelectSeq(items, LAMBDA i : i # f.id)
      /\ flights' = flights \ {f}
      /\ inflight' = [inflight EXCEPT ![f.q] = @ - 1]
      /\ timers' = [timers EXCEPT ![f.q] = @ + 1]
      /\ last' = Event(L, [kind |-> "http", id |-> f.id, out |-> out,
                            pre |-> obj[f.id]])
      /\ UNCHANGED <<nq, claims, issued, drops, pushes>>
      /\ UNCHANGED sockvars

\* The continuation of runNext after await fetch / await res.json(),
\* through the finally block.
UploadCompletes(L) ==
    \E f \in flights, out \in Outcomes :
      /\ obj' = [obj EXCEPT ![f.id] = finish(@, out, f.id, items, obj)]
      /\ flights' = flights \ {f}
      /\ inflight' = [inflight EXCEPT ![f.q] = @ - 1]
      /\ timers' = [timers EXCEPT ![f.q] = @ + 1]
      /\ last' = Event(L, [kind |-> "http", id |-> f.id, out |-> out,
                            pre |-> obj[f.id]])
      /\ UNCHANGED <<items, nq, claims, issued, drops, pushes>>
      /\ UNCHANGED sockvars

\* setTimeout(runNext, 50) fires
TimerFires ==
    \E q \in 1..nq :
      /\ timers[q] > 0
      /\ timers' = [timers EXCEPT ![q] = @ - 1]
      /\ SetRunner(runNext(Runner, items, q))
      /\ last' = NoEvent
      /\ UNCHANGED <<items, nq, drops, pushes>>
      /\ UNCHANGED sockvars

\* Variant of ClearFinished with one slip, used to test the properties
\* below: every item in a final state is removed.
ClearFinishedFinal ==
    /\ items' = SelectSeq(items, LAMBDA i : ~IsFinal(obj[i].status))
    /\ last' = NoEvent
    /\ UNCHANGED <<obj, nq, inflight, flights, timers, claims, issued,
                   drops, pushes>>
    /\ UNCHANGED sockvars

\* btnClearFinished.onclick
ClearFinished ==
    /\ items' = SelectSeq(items,
                  LAMBDA i : obj[i].status \notin {"done", "duplicate"})
    /\ last' = NoEvent
    /\ UNCHANGED <<obj, nq, inflight, flights, timers, claims, issued,
                   drops, pushes>>
    /\ UNCHANGED sockvars

\* Variant of ClearAll with one slip, used to test the properties below:
\* the uploads in flight are aborted.
ClearAllAbort ==
    /\ items' = <<>>
    /\ flights' = {}
    /\ inflight' = [q \in 1..nq |-> 0]
    /\ last' = NoEvent
    /\ UNCHANGED <<obj, nq, timers, claims, issued, drops, pushes>>
    /\ UNCHANGED sockvars

\* btnClearAll.onclick
ClearAll ==
    /\ items' = <<>>
    /\ last' = NoEvent
    /\ UNCHANGED <<obj, nq, inflight, flights, timers, claims, issued,
                   drops, pushes>>
    /\ UNCHANGED sockvars

\* openSocket(): a new connection replaces the value of socket
openSocket ==
    /\ socks' = Append(socks, NewSocket)
    /\ socket' = Len(socks) + 1

\* socket.onopen of the k-th object: socket.send on the object the variable
\* socket holds (send throws on a connecting one, and does nothing on a
\* closed one)
SocketOpens ==
    \E k \in 1..Len(socks) :
      /\ socks[k].state = "connecting"
      /\ LET opened == [socks EXCEPT ![k].state = "open"] IN
         socks' = IF socket > 0 /\ opened[socket].state = "open"
                  THEN [opened EXCEPT ![socket].sent =
                          Append(@, [session_id |-> sessionId])]
                  ELSE opened
      /\ UNCHANGED <<socket, retry>>
      /\ UNCHANGED <<obj, items, nq, inflight, flights, timers, claims,
                     issued, drops, pushes, last>>

\* Variant of SocketCloses with one slip, used to test the properties
\* below: onclose schedules no reconnect.
SocketClosesForGood ==
    \E k \in 1..Len(socks) :
      /\ socks' = Remove(socks, k)
      /\ socket' = IF socket = k THEN 0
                   ELSE IF socket > k THEN socket - 1 ELSE socket
      /\ UNCHANGED retry
      /\ UNCHANGED <<obj, items, nq, inflight, flights, timers, claims,
                     issued, drops, pushes, last>>

\* Variant of SocketCloses with one slip, used to test the properties
\* below: an error handler schedules a reconnect as well as onclose.
SocketClosesTwice ==
    \E k \in 1..Len(socks) :
      /\ socks' = Remove(socks, k)
      /\ socket' = IF socket = k THEN 0
                   ELSE IF socket > k THEN socket - 1 ELSE socket
      /\ retry' = retry + 2
      /\ UNCHANGED <<obj, items, nq, inflight, flights, timers, claims,
                     issued, drops, pushes, last>>

\* socket.onclose of the k-th object, connecting or open (a connection
\* that fails to open is closed too): setTimeout(openSocket, 2000)
SocketCloses ==
    \E k \in 1..Len(socks) :
      /\ socks' = Remove(socks, k)
      /\ socket' = IF socket = k THEN 0
                   ELSE IF socket > k THEN socket - 1 ELSE socket
      /\ retry' = retry + 1
      /\ UNCHANGED <<obj, items, nq, inflight, flights, timers, claims,
                     issued, drops, pushes, last>>

\* the reconnect timer fires: openSocket()
ReconnectFires ==
    /\ retry > 0
    /\ retry' = retry - 1
    /\ openSocket
    /\ UNCHANGED <<obj, items, nq, inflight, flights, timers, claims,
                   issued, drops, pushes, last>>

Next ==
    \/ Drop(Limits, SpecAccepted)
    \/ FileInputChange(Limits, SpecAccepted)
    \/ SocketMessage(Limits, AnyId, PushBodies)
    \/ UploadCompletes(Limits)
    \/ TimerFires
    \/ ClearFinished
    \/ ClearAll

Spec == Init /\ [][Next]_vars

QueueNext ==
    \/ Drop(QLimits, QAccepted)
    \/ FileInputChange(QLimits, QAccepted)
    \/ SocketMessage(QLimits, AnyId, QBodies)
    \/ UploadCompletes(QLimits)
    \/ TimerFires
    \/ ClearFinished
    \/ ClearAll

QueueSpec == Init /\ [][QueueNext]_vars

\* The client when the push channel only carries messages for items whose
\* upload has been issued.  Every issued upload completes and every timer
\* fires; the user and the server are free to stop.
LiveNext ==
    \/ Drop(LLimits, LAccepted)
    \/ FileInputChange(LLimits, LAccepted)
    \/ SocketMessage(LLimits, IssuedIds, QBodies)
    \/ UploadCompletes(LLimits)
    \/ TimerFires
    \/ ClearFinished
    \/ ClearAll

LiveSpec ==
    /\ Init
    /\ [][LiveNext]_vars
    /\ WF_vars(UploadCompletes(LLimits))
    /\ WF_vars(TimerFires)

\* The client on one batch larger than the throttle, any push message of
\* QBodies, and the details of the last push or completion kept.
BatchNext ==
    \/ Drop(BLimits, LAccepted)
    \/ FileInputChange(BLimits, LAccepted)
    \/ SocketMessage(BLimits, AnyId, QBodies)
    \/ UploadCompletes(BLimits)
    \/ TimerFires
    \/ ClearFinished
    \/ ClearAll

BatchSpec == Init /\ [][BatchNext]_vars

\* The client on one batch of up to five files.
FiveNext ==
    \/ Drop(FLimits, FAccepted)
    \/ FileInputChange(FLimits, FAccepted)
    \/ SocketMessage(FLimits, AnyId, QBodies)
    \/ UploadCompletes(FLimits)
    \/ TimerFires
    \/ ClearFinished
    \/ ClearAll

FiveSpec == Init /\ [][FiveNext]_vars

\* The client with the life of the push connection: messages arrive only
\* while a connection is open, and every reconnect timer fires.
SocketNext ==
    \/ Drop(SLimits, SAccepted)
    \/ FileInputChange(SLimits, SAccepted)
    \/ SocketMessage(SLimits, AnyId, QBodies)
    \/ UploadCompletes(SLimits)
    \/ TimerFires
    \/ ClearFinished
    \/ ClearAll
    \/ SocketOpens
    \/ SocketCloses
    \/ ReconnectFires

SocketSpec ==
    /\ Init
    /\ [][SocketNext]_vars
    /\ WF_vars(ReconnectFires)

\* The client on batches of accepted and rejected files; last keeps the
\* files of a batch until the next event.
FilterNext ==
    \/ DropFiles(XLimits, XBatches)
    \/ PickFiles(XLimits, XBatches)
    \/ SocketMessage(XLimits, AnyId, XBodies)
    \/ UploadCompletes(XLimits)
    \/ TimerFires
    \/ ClearFinished
    \/ ClearAll

FilterSpec == Init /\ [][FilterNext]_vars

TypeOK ==
    /\ Range(items) \subseteq 1..Len(obj)
    /\ \A f \in flights : f.id \in 1..Len(obj) /\ f.q \in 1..nq

\* ----------------------------------------------------------------- claims
Ids == 1..Len(obj)

\* C1: once an item's status is done, duplicate or error, no later event
\* (a push message for it, or the completion of its own upload) changes
\* its status.
C1_TerminalStatusNeverChanges ==
    [][\A i \in Ids : IsFinal(obj[i].status) =>
                         obj'[i].status = obj[i].status]_vars

\* C2: the rank of an item's status never decreases from one state to the
\* next.
C2_RankNeverDecreases ==
    [][\A i \in Ids : Rank(obj'[i].status) >= Rank(obj[i].status)]_vars

\* C3: the progress of an item never decreases, whichever event updates it.
C3_ProgressNeverDecreases ==
    [][\A i \in Ids : obj'[i].progress >= obj[i].progress]_vars

\* C3 witness: a push message carrying a progress value below the one a
\* non-terminal item already has was handled.
C3_StaleProgressDelivered ==
    /\ last.kind = "push"
    /\ last.found
    /\ ~IsFinal(last.pre.status)
    /\ "progress" \in DOMAIN last.msg
    /\ last.msg.progress < last.pre.progress

\* C4: every item whose status is terminal has progress 100.
C4_TerminalHasFullProgress ==
    \A i \in Ids : IsFinal(obj[i].status) => obj[i].progress = 100

\* C5: at most 3 uploads are issued and not yet completed.
C5_AtMostThreeInFlight == Cardinality(flights) <= 3

\* C6: every item is claimed (queued -> checking) and uploaded at most
\* once, and is never queued again after it was claimed.
C6_ClaimedAtMostOnce ==
    [][\A i \in Ids :
         /\ claims'[i] <= 1
         /\ issued'[i] <= 1
         /\ claims[i] >= 1 => obj'[i].status # "queued"]_vars

\* C6 witness: two runQueue invocations, all their uploads issued, a timer
\* pending, a push message delivered, and every item claimed exactly once.
C6_AllClaimedOnce ==
    /\ nq = 2
    /\ pushes = 1
    /\ Len(obj) = QItems
    /\ \A i \in Ids : claims[i] = 1 /\ issued[i] = 1
    /\ \E q \in 1..nq : timers[q] > 0

\* C7: every item that is added and not cleared eventually reaches a
\* terminal status, when uploads complete, timers fire and push messages
\* refer only to items whose upload has been issued.
C7_EveryItemFinishes ==
    \A i \in 1..LItems :
       (i \in Range(items)) ~>
          (i \notin Range(items) \/ IsFinal(obj[i].status))

\* C7 witness: a batch of more items than the throttle, all of them still
\* in the registry and terminal, the one that had to wait included, and
\* one of them failed by an exception.
C7_AllFinished ==
    /\ nq = 1
    /\ Len(obj) = LItems
    /\ Len(items) = LItems
    /\ \A i \in Ids : IsFinal(obj[i].status)
    /\ \E i \in Ids : obj[i].message = FetchError

\* C8: a push message for an item that is already done, duplicate or error
\* changes nothing of the item.
C8_PushOnTerminalDiscarded ==
    (last.kind = "push" /\ last.found /\ IsFinal(last.pre.status)) =>
       obj[last.msg.item_id] = last.pre

\* C8 witness: a message with a status, a higher progress and a text was
\* handled for a terminal item.
C8_PushOnTerminalDelivered ==
    /\ last.kind = "push"
    /\ last.found
    /\ IsFinal(last.pre.status)
    /\ "status" \in DOMAIN last.msg
    /\ last.msg.status # last.pre.status
    /\ "progress" \in DOMAIN last.msg
    /\ last.msg.progress > last.pre.progress
    /\ Truthy(Field(last.msg, "message"))
    /\ last.msg.message # last.pre.message

\* C9: for a non-terminal item and a message with one of the six defined
\* statuses, a strictly lower rank leaves the status unchanged, an equal
\* or higher rank is applied, and in both cases the progress (maximum of
\* the two, 100 once the status is terminal) and the text are applied.
C9_StatusAppliedByRank ==
    (/\ last.kind = "push"
     /\ last.found
     /\ ~IsFinal(last.pre.status)
     /\ "status" \in DOMAIN last.msg
     /\ last.msg.status \in DOMAIN STATUS_ORDER) =>
       LET m == last.msg
           pre == last.pre
           now == obj[m.item_id]
       IN /\ Rank(m.status) < Rank(pre.status) => now.status = pre.status
          /\ Rank(m.status) >= Rank(pre.status) => now.status = m.status
          /\ now.progress =
               IF IsFinal(now.status) THEN 100
               ELSE IF "progress" \in DOMAIN m
                    THEN Max(pre.progress, m.progress)
               ELSE pre.progress
          /\ now.message =
               IF Truthy(Field(m, "message")) THEN m.message
               ELSE pre.message

\* C9 witness: a message with a strictly lower status, a higher progress
\* and a new text was handled for a non-terminal item.
C9_RegressiveDelivered ==
    /\ last.kind = "push"
    /\ last.found
    /\ ~IsFinal(last.pre.status)
    /\ "status" \in DOMAIN last.msg
    /\ last.msg.status \in DOMAIN STATUS_ORDER
    /\ Rank(last.msg.status) < Rank(last.pre.status)
    /\ "progress" \in DOMAIN last.msg
    /\ last.msg.progress > last.pre.progress
    /\ Truthy(Field(last.msg, "message"))
    /\ last.msg.message # last.pre.message

\* C10: a push message that carries no status field never changes the
\* status of the item it refers to.
C10_NoStatusKeepsStatus ==
    [][\A i \in Ids, body \in QBodies :
         ("status" \notin DOMAIN body /\ Deliver(QLimits, i, body)) =>
            obj'[i].status = obj[i].status]_vars

\* --------------------------------------------------- upload completion
\* the status text of a response body: String(body.status), '' when the
\* body has none
StatusText(body) ==
    IF Truthy(Field(body, "status")) THEN body.status ELSE ""

\* C11: when the upload of a non-terminal item completes with a successful
\* response, the item becomes duplicate if the response status text
\* contains "duplicate" and done otherwise, its progress becomes 100, and
\* its message becomes the response status text (when the response has
\* one).
C11_SuccessFinalizes ==
    (/\ last.kind = "http"
     /\ ~last.out.thrown
     /\ last.out.ok
     /\ ~IsFinal(last.pre.status)) =>
       LET text == StatusText(last.out.body)
           now == obj[last.id]
       IN /\ now.status = IF isDuplicate(text) THEN "duplicate" ELSE "done"
          /\ now.progress = 100
          /\ text # "" => now.message = text

\* the error detail of a failed upload: String(err) of the exception, or
\* body.error, or the generic text
ErrorDetail(out) ==
    IF out.thrown THEN FetchError
    ELSE IF Truthy(Field(out.body, "error")) THEN out.body.error
    ELSE "Upload failed"

\* C12: when an upload fails (non-success response or exception) and the
\* item is not terminal, the item becomes error with the error detail as
\* its message; when the item is already terminal, nothing of it changes.
C12_FailureMarksError ==
    (/\ last.kind = "http"
     /\ (last.out.thrown \/ ~last.out.ok)) =>
       LET now == obj[last.id] IN
       IF IsFinal(last.pre.status)
       THEN now = last.pre
       ELSE /\ now.status = "error"
            /\ now.message = ErrorDetail(last.out)

\* C13: the completion of one item's upload, whatever its outcome, changes
\* no field of any other item.
C13_CompletionTouchesOneItem ==
    [][last'.kind = "http" =>
         \A j \in Ids \ {last'.id} : obj'[j] = obj[j]]_vars

\* C13 witness: an upload failed by an exception while another upload was
\* in flight and another item was queued.
C13_FailureBesideOthers ==
    /\ last.kind = "http"
    /\ last.out.thrown
    /\ obj[last.id].status = "error"
    /\ \E f \in flights : obj[f.id].status = "checking"
    /\ \E j \in Range(items) : obj[j].status = "queued"

\* ------------------------------------------------------------- registry
\* C14: a push message changes at most the registry item whose id is the
\* message's item id; when the registry has no item of that id, nothing
\* changes.
C14_PushTouchesOneItem ==
    [][last'.kind = "push" =>
         LET i == last'.msg.item_id IN
         /\ items' = items
         /\ \A j \in Ids : (j # i \/ i \notin Range(items)) =>
                               obj'[j] = obj[j]]_vars

\* C14 witness: a message with a status was handled for an item that had
\* been cleared, while another item was in the registry and not terminal.
C14_PushForClearedItem ==
    /\ last.kind = "push"
    /\ last.msg.item_id \in Ids
    /\ last.msg.item_id \notin Range(items)
    /\ "status" \in DOMAIN last.msg
    /\ \E j \in Range(items) : ~IsFinal(obj[j].status)

\* C15: the item the runner claims is the oldest queued one: after a step
\* that claims item i, no item added before i is left queued in the
\* registry.
C15_ClaimsOldestQueued ==
    [][\A i \in 1..Len(obj') :
         (claims'[i] > (IF i <= Len(obj) THEN claims[i] ELSE 0)) =>
            \A j \in Range(items') :
               j < i => obj'[j].status # "queued"]_vars

\* ---------------------------------------------------------------- queue
RECURSIVE Sum(_)
Sum(s) == IF Len(s) = 0 THEN 0 ELSE Head(s) + Sum(Tail(s))
\* uploads issued and completed (their finally block has run)
Completed == Sum(issued) - Cardinality(flights)

\* C16: when one batch of 5 accepted files is added to the empty page,
\* exactly 3 of its items leave queued in that step and 2 stay queued; and
\* from then on every further claim is preceded by a completion of its
\* own: the items claimed never outnumber 3 plus the uploads completed.
C16_ThreeOfFiveStart ==
    [][/\ (Len(obj) = 0 /\ Len(obj') = 5) =>
            /\ Cardinality({ i \in 1..5 : obj'[i].status = "queued" }) = 2
            /\ Cardinality({ i \in 1..5 : obj'[i].status = "checking" }) = 3
            /\ Cardinality(flights') = 3
       /\ (nq' = 1 /\ Len(obj') = 5) =>
            Sum(claims') <= 3 + (Sum(issued') - Cardinality(flights'))
      ]_vars

\* C16 witness: of a batch of 5, three were claimed at once, one upload
\* has completed, a fourth item was claimed after it and the fifth is
\* still queued.
C16_FourthClaimedAfterCompletion ==
    /\ nq = 1
    /\ Len(obj) = 5
    /\ Sum(claims) = 4
    /\ Completed = 1
    /\ Cardinality(flights) = 3
    /\ \E j \in Range(items) : obj[j].status = "queued"

\* C17: the registry changes only in a step of a user action.  Either
\* files were added: the new items, with progress 0 and status queued (or
\* checking, once the runQueue of the same handler has claimed them), are
\* at the head, the newest first, and the items before them follow in
\* their order.  Or it is a clear action, which changes nothing else and
\* only removes items.  Steps of the runner, of an upload completion, of a
\* push message or of the push connection leave the registry as it is.
C17_RegistryChangesByUserOnly ==
    [][items' # items =>
         \/ /\ drops' = drops + 1
            /\ LET n == Len(obj') - Len(obj) IN
               /\ n >= 1
               /\ items' = [k \in 1..(n + Len(items)) |->
                              IF k <= n THEN Len(obj) + n + 1 - k
                              ELSE items[k - n]]
               /\ \A i \in (Len(obj) + 1)..Len(obj') :
                     /\ obj'[i].progress = 0
                     /\ obj'[i].status \in {"queued", "checking"}
            /\ UNCHANGED <<pushes, sockvars>>
         \/ /\ items' = SelectSeq(items, LAMBDA i : i \in Range(items'))
            /\ UNCHANGED <<obj, nq, inflight, flights, timers, claims,
                           issued, drops, pushes, sockvars>>]_vars

\* C17 witness: a file was added in front of an item already there, an
\* upload has completed, a push message was handled over an open
\* connection, and the registry holds both items, the newest first.
C17_AddedInFront ==
    /\ drops = 2
    /\ items = <<2, 1>>
    /\ pushes = 1
    /\ Completed >= 1
    /\ socket = 1
    /\ Len(socks) = 1
    /\ Len(socks[1].sent) = 1

\* C18: a clear action cancels no upload (the uploads in flight are the
\* same after it), and the completion of an upload whose item has been
\* removed leaves the registry as it is: the same items in the same
\* order, each with the same fields.
C18_ClearKeepsUploads ==
    [][/\ (items' # items /\ drops' = drops) => flights' = flights
       /\ (last'.kind = "http" /\ last'.id \notin Range(items)) =>
            /\ items' = items
            /\ \A j \in Range(items) : obj'[j] = obj[j]]_vars

\* C18 witness: the upload of an item that had been removed completed
\* successfully while another item was in the registry, not terminal.
C18_CompletedAfterClear ==
    /\ last.kind = "http"
    /\ last.out.ok
    /\ last.id \notin Range(items)
    /\ obj[last.id].status \in {"done", "duplicate"}
    /\ \E j \in Range(items) : ~IsFinal(obj[j].status)

\* ---------------------------------------------------------- push socket
\* C19: whenever the connection has closed (opened before or not), a new
\* connection attempt is eventually made, however many there were before;
\* and every connection that is open has sent the session identifier, and
\* nothing else, as its handshake.
C19_ReconnectsForever ==
    /\ (socks = <<>>) ~> (\E k \in 1..Len(socks) : socks[k].state = "connecting")
    /\ [](\A k \in 1..Len(socks) :
            socks[k].state = "open" =>
               socks[k].sent = <<[session_id |-> sessionId]>>)

\* C19 witness: a connection that had opened and delivered a message has
\* closed, and the reconnect is pending.
C19_ClosedAfterOpen ==
    /\ socks = <<>>
    /\ retry = 1
    /\ pushes = 1

\* ---------------------------------------------------------- file filter
\* The files of Scenario the rule admits: photo.JPG by its extension,
\* whatever the case, clip.mkv by its MIME type (and its extension);
\* readme.txt has neither.
Admitted == {"photo.JPG", "clip.mkv"}

\* C20: of every batch exactly the files with an image/ or video/ MIME
\* type or an allowed extension enter the registry, one new item each
\* (queued, or already claimed by the handler's own runQueue), and the
\* other files none.
C20_FilterAdmits ==
    [][last'.kind = "add" =>
         LET files == last'.files
             n == Cardinality({ k \in 1..Len(files) :
                                  files[k].name \in Admitted })
         IN /\ Len(obj') = Len(obj) + n
            /\ Len(items') = Len(items) + n
            /\ \A k \in 1..n :
                  /\ items'[k] = Len(obj) + n + 1 - k
                  /\ obj'[items'[k]].status \in {"queued", "checking"}]_vars

\* ---------------------------------------------------------------- clear
\* the items of reg whose status is in set, in their order
Keep(reg, o, set) == SelectSeq(reg, LAMBDA i : o[i].status \in set)
\* every status an item can have
AllStatuses == { obj[i].status : i \in Ids }

\* C21: after Clear finished no item in a terminal state (done, duplicate
\* or error) is in the registry, and every non-terminal item is kept, with
\* its fields, in the same relative order.
C21_ClearFinishedRemovesTerminal ==
    [][ClearFinished =>
         /\ \A i \in Range(items') : ~IsFinal(obj'[i].status)
         /\ Keep(items', obj', AllStatuses \ FINAL_STATES) =
               Keep(items, obj, AllStatuses \ FINAL_STATES)
         /\ obj' = obj]_vars

\* C21 as amended: after Clear finished no done or duplicate item is in
\* the registry, and every other item, those in error included, is kept,
\* with its fields, in the same relative order.
C21_ClearFinishedRemovesDone ==
    [][ClearFinished =>
         /\ \A i \in Range(items') :
               obj'[i].status \notin {"done", "duplicate"}
         /\ items' = Keep(items, obj, AllStatuses \ {"done", "duplicate"})
         /\ obj' = obj]_vars

\* C21 witness: of one batch, a done item has been removed while an item
\* in error and a non-terminal item are still there, the newer first.
C21_ErrorItemKept ==
    /\ drops = 1
    /\ \E i \in Ids \ Range(items) : obj[i].status = "done"
    /\ \E k \in 1..Len(items) :
          /\ obj[items[k]].status = "error"
          /\ \E j \in 1..Len(items) :
                j # k /\ ~IsFinal(obj[items[j]].status)
    /\ \A k \in 1..(Len(items) - 1) : items[k] > items[k + 1]

\* ---------------------------------------------------------- push twice
\* C22: a push message with a status (and a progress of 0..100, if any)
\* that has just been handled for an item changes nothing when it is
\* handled a second time: the item after two deliveries is the item after
\* one.
C22_SecondDeliveryChangesNothing ==
    (/\ last.kind = "push"
     /\ last.found
     /\ "status" \in DOMAIN last.msg
     /\ "progress" \in DOMAIN last.msg => last.msg.progress \in 0..100) =>
       onmessage(obj[last.msg.item_id], last.msg) = obj[last.msg.item_id]

\* C22 witness: a message with a status, a higher progress and a text was
\* handled for a non-terminal item, changed all three fields and left the
\* item non-terminal.
C22_EffectiveDelivery ==
    /\ last.kind = "push"
    /\ last.found
    /\ "status" \in DOMAIN last.msg
    /\ "progress" \in DOMAIN last.msg
    /\ last.msg.progress > last.pre.progress
    /\ Truthy(Field(last.msg, "message"))
    /\ obj[last.msg.item_id].status # last.pre.status
    /\ obj[last.msg.item_id].message # last.pre.message
    /\ ~IsFinal(obj[last.msg.item_id].status)

\* ------------------------------------------------- completion and pushes
\* the status an HTTP outcome stands for
OutcomeStatus(out) ==
    IF out.thrown \/ ~out.ok THEN "error"
    ELSE IF isDuplicate(StatusText(out.body)) THEN "duplicate"
    ELSE "done"
\* the upload of item i was issued and has completed
HasCompleted(i) == issued[i] > 0 /\ \A f \in flights : f.id # i

\* C23: when the completion of an item's upload is processed, the item's
\* status becomes the one its HTTP outcome stands for, whatever push
\* messages were handled before; and the status of an item whose upload
\* has completed is changed by no later step, whatever push messages
\* follow.
C23_OutcomeDecidesStatus ==
    [][/\ last'.kind = "http" =>
            obj'[last'.id].status = OutcomeStatus(last'.out)
       /\ \A i \in Ids : HasCompleted(i) =>
            obj'[i].status = obj[i].status]_vars

\* C24: there is never more than one connection (connecting or open) or
\* more than one pending reconnect timer, and never one of each; a
\* connection is created only when none is left, and each close schedules
\* exactly one reconnect.
C24_OneConnectionOrTimer ==
    [][/\ Len(socks) + retry <= 1
       /\ Len(socks') + retry' <= 1
       /\ Len(socks') > Len(socks) => socks = <<>>
       /\ Len(socks') < Len(socks) => retry' = retry + 1]_vars

\* C24 witness: after a message was handled over an open connection, that
\* connection has closed, its reconnect timer has fired and the new
\* connection is connecting.
C24_Reconnecting ==
    /\ pushes = 1
    /\ Len(socks) = 1
    /\ socks[1].state = "connecting"
    /\ retry = 0

====
